---------------------------- MODULE Spec2Model ----------------------------
(***************************************************************************)
(* Model of the YT-search-skip backend (src/server.js): the Express        *)
(* handler of POST /analyze-video, its error middleware, and the two pure  *)
(* helpers getVideoId and extractJSON.                                     *)
(*                                                                         *)
(* Texts are TLA+ strings, read one character at a time (At, SubSeq).      *)
(* JavaScript values are tagged records:                                   *)
(*   [t |-> "undef"]  [t |-> "null"]  [t |-> "bool", b]  [t |-> "str", s]   *)
(*   [t |-> "num", k, m, e]   k = "fin": the number m / 10^e (normalised), *)
(*                            k = "nan", k = "inf" (m = 1 or -1)           *)
(*   [t |-> "arr", a]  a sequence of values                                *)
(*   [t |-> "obj", p]  a sequence of members [k |-> key, v |-> value]      *)
(***************************************************************************)
EXTENDS Integers, Sequences, FiniteSets, TLC

(***************************************************************************)
(* Characters and strings                                                  *)
(***************************************************************************)
At(s, i) == IF i >= 1 /\ i <= Len(s) THEN SubSeq(s, i, i) ELSE ""

From(s, i) == IF i > Len(s) THEN "" ELSE SubSeq(s, i, Len(s))

StartsWithAt(s, i, p) ==
  /\ i >= 1
  /\ i + Len(p) - 1 <= Len(s)
  /\ SubSeq(s, i, i + Len(p) - 1) = p

\* The white space of the regular expressions' \s, of String.prototype.trim
\* and of JSON, over the characters the model's texts use.
WhiteSpace == {" ", "\t", "\n", "\r"}

IsWs(c) == c \in WhiteSpace

DigitChars == "0123456789"

IsDigit(c) == c \in {"0", "1", "2", "3", "4", "5", "6", "7", "8", "9"}

DigitVal(c) == (CHOOSE d \in 1..10 : At(DigitChars, d) = c) - 1

\* The grave accent (code 96) of a Markdown code fence cannot be written in
\* a TLA+ string: the model's texts write the tilde for it, and no text of
\* the model holds a real tilde.
Tick == "~"

Fence == Tick \o Tick \o Tick

\* The characters of the model's texts in code-unit order (for the
\* relational operators' comparison of two strings), Tick at code 96.
Ascii ==
  "\t\n\r !\"#$%&'()*+,-./0123456789:;<=>?@ABCDEFGHIJKLMNOPQRSTUVWXYZ[\\]^_~abcdefghijklmnopqrstuvwxyz{|}"

CharCode(c) == CHOOSE i \in 1..Len(Ascii) : At(Ascii, i) = c

RECURSIVE StrLess(_, _)
\* a < b for two strings: the code-unit order of the language.
StrLess(a, b) ==
  IF b = "" THEN FALSE
  ELSE IF a = "" THEN TRUE
  ELSE IF Head(a) = Head(b) THEN StrLess(Tail(a), Tail(b))
  ELSE CharCode(Head(a)) < CharCode(Head(b))

RECURSIVE SkipWs(_, _)
SkipWs(s, i) == IF IsWs(At(s, i)) THEN SkipWs(s, i + 1) ELSE i

RECURSIVE SkipWsBack(_, _)
\* The least j such that s[j+1..i] is white space.
SkipWsBack(s, i) == IF IsWs(At(s, i)) THEN SkipWsBack(s, i - 1) ELSE i

\* F(e), with e computed once: F's argument is bound to the value of e.
\* (TLC evaluates the definitions of a LET and the arguments of an operator
\* at each use; the result of a scan that later steps read several times is
\* bound this way.)
Bind(e, F(_)) == CHOOSE y \in {F(x) : x \in {e}} : TRUE

Trim(s) ==
  Bind(s, LAMBDA t : Bind(<<SkipWs(t, 1), SkipWsBack(t, Len(t))>>, LAMBDA b :
    IF b[1] > b[2] THEN "" ELSE SubSeq(t, b[1], b[2])))

RECURSIVE DigitsEnd(_, _)
\* The index after the run of digits that starts at i.
DigitsEnd(s, i) == IF IsDigit(At(s, i)) THEN DigitsEnd(s, i + 1) ELSE i

RECURSIVE DigitsVal(_, _, _)
\* The value of the digits s[i..j-1].
DigitsVal(s, i, j) ==
  IF j <= i THEN 0 ELSE 10 * DigitsVal(s, i, j - 1) + DigitVal(At(s, j - 1))

RECURSIVE Pow10(_)
Pow10(n) == IF n <= 0 THEN 1 ELSE 10 * Pow10(n - 1)

\* The indices in lo..hi at which pat occurs in s.
Matches(s, pat, lo, hi) ==
  Bind(<<s, pat>>, LAMBDA a : {i \in lo..hi : StartsWithAt(a[1], i, a[2])})

\* The least index in lo..hi at which pat occurs in s, 0 when there is none.
FirstMatch(s, pat, lo, hi) ==
  Bind(Matches(s, pat, lo, hi), LAMBDA m :
    IF m = {} THEN 0 ELSE CHOOSE i \in m : \A j \in m : i <= j)

\* The greatest index in lo..hi at which pat occurs in s, 0 when none.
LastMatch(s, pat, lo, hi) ==
  Bind(Matches(s, pat, lo, hi), LAMBDA m :
    IF m = {} THEN 0 ELSE CHOOSE i \in m : \A j \in m : i >= j)

\* The least index of pat in s, 0 when there is none.
IndexOf(s, pat) == FirstMatch(s, pat, 1, Len(s))

RECURSIVE ReplaceAll(_, _, _)
\* String.prototype.replace with a global literal pattern: every match,
\* leftmost first, not overlapping.
ReplaceAll(s, pat, rep) ==
  Bind(s, LAMBDA t : Bind(IndexOf(t, pat), LAMBDA i :
    IF i = 0 THEN t
    ELSE SubSeq(t, 1, i - 1) \o rep \o ReplaceAll(From(t, i + Len(pat)), pat, rep)))

(***************************************************************************)
(* Numbers                                                                 *)
(***************************************************************************)
NaN == [t |-> "num", k |-> "nan", m |-> 0, e |-> 0]

Infinity(sign) == [t |-> "num", k |-> "inf", m |-> sign, e |-> 0]

RECURSIVE Fin(_, _)
\* The finite number m / 10^e, normalised: no trailing zero in the fraction.
Fin(m, e) ==
  IF e > 0 /\ m % 10 = 0 THEN Fin(m \div 10, e - 1)
  ELSE [t |-> "num", k |-> "fin", m |-> m, e |-> e]

Num(n) == Fin(n, 0)

\* a < b for two numbers, neither NaN.
NumLess(a, b) ==
  IF a.k = "inf" THEN a.m < 0 /\ ~(b.k = "inf" /\ b.m < 0)
  ELSE IF b.k = "inf" THEN b.m > 0
  ELSE a.m * Pow10(b.e) < b.m * Pow10(a.e)

(***************************************************************************)
(* Values                                                                  *)
(***************************************************************************)
Undefined == [t |-> "undef"]
Null == [t |-> "null"]
Bool(b) == [t |-> "bool", b |-> b]
Str(s) == [t |-> "str", s |-> s]
Arr(a) == [t |-> "arr", a |-> a]
Obj(p) == [t |-> "obj", p |-> p]
Member(k, v) == [k |-> k, v |-> v]

typeof(v) ==
  CASE v.t = "undef" -> "undefined"
    [] v.t = "bool" -> "boolean"
    [] v.t = "num" -> "number"
    [] v.t = "str" -> "string"
    [] OTHER -> "object"

HasKey(o, key) == \E i \in 1..Len(o.p) : o.p[i].k = key

\* Property read o.key: undefined on a missing key and on a primitive or an
\* array (whose own keys are indices).
Get(o, key) ==
  IF o.t = "obj" /\ HasKey(o, key)
  THEN o.p[CHOOSE i \in 1..Len(o.p) : o.p[i].k = key].v
  ELSE Undefined

\* Property write o.key = v: in place, a new key goes last.
Put(o, key, v) ==
  IF HasKey(o, key)
  THEN Obj([i \in 1..Len(o.p) |->
              IF o.p[i].k = key THEN Member(key, v) ELSE o.p[i]])
  ELSE Obj(Append(o.p, Member(key, v)))

(***************************************************************************)
(* Decimal literals: the shared scanner of parseFloat, of the conversion   *)
(* of a string to a number, and of JSON.parse's numbers                    *)
(***************************************************************************)
NoLit == [ok |-> FALSE, v |-> NaN, i |-> 0]

\* The exponent part at i, if one is there: [eE][+-]?[0-9]+ . x is its
\* value and i the index after it; without one, x = 0 and i is unchanged.
ExponentAt(s, i) ==
  Bind(IF At(s, i + 1) \in {"+", "-"} THEN i + 2 ELSE i + 1, LAMBDA sg :
    Bind(DigitsEnd(s, sg), LAMBDA de :
      IF At(s, i) \in {"e", "E"} /\ de > sg
      THEN [x |-> (IF At(s, i + 1) = "-" THEN -1 ELSE 1) * DigitsVal(s, sg, de),
            i |-> de]
      ELSE [x |-> 0, i |-> i]))

\* The number sign * (ip.fp) * 10^x, ip and fp given as digit runs of s.
Decimal(s, sign, i0, i1, f0, f1, x) ==
  Bind(<<sign * (DigitsVal(s, i0, i1) * Pow10(f1 - f0) + DigitsVal(s, f0, f1)),
         f1 - f0>>, LAMBDA d :
    IF x >= 0 THEN Fin(d[1] * Pow10(x), d[2]) ELSE Fin(d[1], d[2] - x))

\* The longest StrDecimalLiteral that starts at i: an optional sign, then
\* Infinity, or digits with an optional fraction and exponent, or a
\* fraction alone.
StrDecimalAt(s, i) ==
  Bind(<<IF At(s, i) = "-" THEN -1 ELSE 1,
         IF At(s, i) \in {"+", "-"} THEN i + 1 ELSE i>>, LAMBDA a :
  Bind(DigitsEnd(s, a[2]), LAMBDA i1 :
  Bind(IF At(s, i1) = "." THEN i1 + 1 ELSE i1, LAMBDA f0 :
  Bind(IF At(s, i1) = "." THEN DigitsEnd(s, f0) ELSE i1, LAMBDA f1 :
  Bind(ExponentAt(s, f1), LAMBDA ex :
    LET sign == a[1]
        i0 == a[2]
    IN  IF StartsWithAt(s, i0, "Infinity")
        THEN [ok |-> TRUE, v |-> Infinity(sign), i |-> i0 + 8]
        ELSE IF i1 = i0 /\ f1 = f0 THEN NoLit
        ELSE [ok |-> TRUE, v |-> Decimal(s, sign, i0, i1, f0, f1, ex.x),
              i |-> ex.i])))))

\* parseFloat: leading white space is skipped, the longest decimal literal
\* is read and what follows it is ignored; NaN when there is none.
parseFloat(s) ==
  Bind(SkipWs(s, 1), LAMBDA i : Bind(StrDecimalAt(s, i), LAMBDA r :
    IF r.ok THEN r.v ELSE NaN))

\* The conversion of a string to a number (ToNumber on a string): the whole
\* trimmed string must be a literal, and the empty string is 0. (The model's
\* texts hold no 0x, 0o or 0b literal.)
StringToNumber(s) ==
  Bind(Trim(s), LAMBDA t : Bind(StrDecimalAt(t, 1), LAMBDA r :
    IF t = "" THEN Num(0)
    ELSE IF r.ok /\ r.i = Len(t) + 1 THEN r.v
    ELSE NaN))

\* A JSON number at i: -? (0 | [1-9][0-9]*) (. [0-9]+)? ([eE][+-]?[0-9]+)?
JSONNumberAt(s, i) ==
  Bind(<<IF At(s, i) = "-" THEN -1 ELSE 1,
         IF At(s, i) = "-" THEN i + 1 ELSE i>>, LAMBDA a :
  Bind(IF At(s, a[2]) = "0" THEN a[2] + 1 ELSE DigitsEnd(s, a[2]), LAMBDA i1 :
  Bind(IF At(s, i1) = "." THEN i1 + 1 ELSE i1, LAMBDA f0 :
  Bind(IF At(s, i1) = "." THEN DigitsEnd(s, f0) ELSE i1, LAMBDA f1 :
  Bind(ExponentAt(s, f1), LAMBDA ex :
    LET sign == a[1]
        i0 == a[2]
    IN  IF i1 = i0 \/ (At(s, i1) = "." /\ f1 = f0)
           \/ (At(s, f1) \in {"e", "E"} /\ ex.i = f1)
        THEN NoLit
        ELSE [ok |-> TRUE, v |-> Decimal(s, sign, i0, i1, f0, f1, ex.x),
              i |-> ex.i])))))

RECURSIVE NatToString(_)
NatToString(n) ==
  IF n < 10 THEN At(DigitChars, n + 1)
  ELSE NatToString(n \div 10) \o At(DigitChars, (n % 10) + 1)

RECURSIVE PadZeros(_, _)
PadZeros(s, n) == IF Len(s) >= n THEN s ELSE PadZeros("0" \o s, n)

\* Number::toString, for the numbers the model's texts give (no exponent
\* notation: magnitudes from 1e-6 up to 1e21).
NumberToString(n) ==
  LET a == IF n.m < 0 THEN -n.m ELSE n.m
      ip == a \div Pow10(n.e)
      fp == a % Pow10(n.e)
  IN  CASE n.k = "nan" -> "NaN"
        [] n.k = "inf" -> (IF n.m < 0 THEN "-Infinity" ELSE "Infinity")
        [] OTHER ->
             (IF n.m < 0 THEN "-" ELSE "") \o NatToString(ip)
             \o (IF n.e = 0 THEN "" ELSE "." \o PadZeros(NatToString(fp), n.e))

(***************************************************************************)
(* Type conversion and the relational operators                            *)
(***************************************************************************)
RECURSIVE JSToString(_)
RECURSIVE Join(_)
\* Array.prototype.join(","): null and undefined elements give "".
Join(a) ==
  IF a = <<>> THEN ""
  ELSE (IF Head(a).t \in {"null", "undef"} THEN "" ELSE JSToString(Head(a)))
       \o (IF Len(a) = 1 THEN "" ELSE "," \o Join(Tail(a)))

\* JSToString. An array joins its elements; a plain object (none of the
\* model's objects has a toString or valueOf key) is "[object Object]".
JSToString(v) ==
  CASE v.t = "undef" -> "undefined"
    [] v.t = "null" -> "null"
    [] v.t = "bool" -> (IF v.b THEN "true" ELSE "false")
    [] v.t = "num" -> NumberToString(v)
    [] v.t = "str" -> v.s
    [] v.t = "arr" -> Join(v.a)
    [] OTHER -> "[object Object]"

\* ToPrimitive: an array or object becomes its string.
ToPrimitive(v) == IF v.t \in {"arr", "obj"} THEN Str(JSToString(v)) ELSE v

ToNumber(v) ==
  Bind(ToPrimitive(v), LAMBDA p :
    CASE p.t = "undef" -> NaN
      [] p.t = "null" -> Num(0)
      [] p.t = "bool" -> (IF p.b THEN Num(1) ELSE Num(0))
      [] p.t = "num" -> p
      [] OTHER -> StringToNumber(p.s))

\* The global isNaN(v): it converts its argument to a number first.
isNaN(v) == ToNumber(v).k = "nan"

\* a < b: two strings (after ToPrimitive) compare as strings, anything else
\* as numbers, and a comparison with NaN is undefined.
LessThan(a, b) ==
  Bind(<<ToPrimitive(a), ToPrimitive(b)>>, LAMBDA p :
    IF p[1].t = "str" /\ p[2].t = "str"
    THEN [def |-> TRUE, lt |-> StrLess(p[1].s, p[2].s)]
    ELSE Bind(<<ToNumber(p[1]), ToNumber(p[2])>>, LAMBDA n :
           IF n[1].k = "nan" \/ n[2].k = "nan" THEN [def |-> FALSE, lt |-> FALSE]
           ELSE [def |-> TRUE, lt |-> NumLess(n[1], n[2])]))

\* a > b is b < a; a >= b is "a < b is defined and false".
GreaterThan(a, b) == Bind(LessThan(b, a), LAMBDA r : r.def /\ r.lt)

GreaterEq(a, b) == Bind(LessThan(a, b), LAMBDA r : r.def /\ ~r.lt)

(***************************************************************************)
(* JSON.parse (server.js:70): a recursive descent over the text. A result  *)
(* is [ok, v, i]: whether a value was read, the value, the index after it. *)
(***************************************************************************)
NoParse == [ok |-> FALSE, v |-> Undefined, i |-> 0]

Parsed(v, i) == [ok |-> TRUE, v |-> v, i |-> i]

\* The character an escape \c stands for; "" when the model has none. (The
\* model's texts hold no \b, \f or \u escape.)
Unescape(c) ==
  CASE c = "\"" -> "\""
    [] c = "\\" -> "\\"
    [] c = "/" -> "/"
    [] c = "n" -> "\n"
    [] c = "r" -> "\r"
    [] c = "t" -> "\t"
    [] OTHER -> ""

\* The least index in lo..hi of a character that ends a run of plain string
\* characters: a quote, a backslash, a raw control character; Len(s) + 1
\* when there is none.
PlainEnd(s, lo, hi) ==
  Bind({i \in lo..hi : At(s, i) \in {"\"", "\\", "\t", "\n", "\r"}}, LAMBDA m :
    IF m = {} THEN Len(s) + 1 ELSE CHOOSE i \in m : \A j \in m : i <= j)

RECURSIVE StringBodyAt(_, _, _)
\* The rest of a string literal of s from i, acc being what was read of it:
\* up to the closing quote; a raw control character is an error.
StringBodyAt(s, i, acc) ==
  Bind(<<PlainEnd(s, i, Len(s)), i, acc>>, LAMBDA a :
    LET j == a[1]
        c == At(s, j)
        run == a[3] \o (IF j > a[2] THEN SubSeq(s, a[2], j - 1) ELSE "")
    IN  IF c = "\"" THEN Parsed(Str(run), j + 1)
        ELSE IF c = "\\" /\ Unescape(At(s, j + 1)) # ""
             THEN StringBodyAt(s, j + 2, run \o Unescape(At(s, j + 1)))
        ELSE NoParse)

JSONStringAt(s, i) == IF At(s, i) = "\"" THEN StringBodyAt(s, i + 1, "") ELSE NoParse

JSONLiteralAt(s, i) ==
  IF StartsWithAt(s, i, "true") THEN Parsed(Bool(TRUE), i + 4)
  ELSE IF StartsWithAt(s, i, "false") THEN Parsed(Bool(FALSE), i + 5)
  ELSE IF StartsWithAt(s, i, "null") THEN Parsed(Null, i + 4)
  ELSE NoParse

RECURSIVE JSONValueAt(_, _)
RECURSIVE JSONElementsAt(_, _, _)
RECURSIVE JSONMembersAt(_, _, _)

\* The elements of an array of s from i (at an element), acc those read.
JSONElementsAt(s, i, acc) ==
  Bind(<<JSONValueAt(s, i), acc>>, LAMBDA a :
    LET r == a[1]
        j == SkipWs(s, r.i)
    IN  IF ~r.ok THEN NoParse
        ELSE IF At(s, j) = "," THEN JSONElementsAt(s, SkipWs(s, j + 1), Append(a[2], r.v))
        ELSE IF At(s, j) = "]" THEN Parsed(Arr(Append(a[2], r.v)), j + 1)
        ELSE NoParse)

\* The members of an object of s from i (at a key), acc the object read so
\* far; a repeated key keeps its place and takes the last value.
JSONMembersAt(s, i, acc) ==
  Bind(<<JSONStringAt(s, i), acc>>, LAMBDA a :
    LET k == a[1]
        c == SkipWs(s, k.i)
    IN  IF ~k.ok \/ At(s, c) # ":" THEN NoParse
        ELSE Bind(JSONValueAt(s, SkipWs(s, c + 1)), LAMBDA r :
               LET j == SkipWs(s, r.i)
               IN  IF ~r.ok THEN NoParse
                   ELSE IF At(s, j) = ","
                        THEN JSONMembersAt(s, SkipWs(s, j + 1), Put(a[2], k.v.s, r.v))
                   ELSE IF At(s, j) = "}" THEN Parsed(Put(a[2], k.v.s, r.v), j + 1)
                   ELSE NoParse))

JSONValueAt(s, i) ==
  Bind(i, LAMBDA p :
    LET c == At(s, p)
        j == SkipWs(s, p + 1)
    IN  CASE c = "{" ->
               (IF At(s, j) = "}" THEN Parsed(Obj(<<>>), j + 1)
                ELSE JSONMembersAt(s, j, Obj(<<>>)))
          [] c = "[" ->
               (IF At(s, j) = "]" THEN Parsed(Arr(<<>>), j + 1)
                ELSE JSONElementsAt(s, j, <<>>))
          [] c = "\"" -> JSONStringAt(s, p)
          [] c = "-" \/ IsDigit(c) ->
               Bind(JSONNumberAt(s, p), LAMBDA n :
                 IF n.ok THEN Parsed(n.v, n.i) ELSE NoParse)
          [] OTHER -> JSONLiteralAt(s, p))

\* JSON.parse(s): one value, white space allowed around it and nothing
\* else. ok = FALSE models the SyntaxError it throws.
JSONParse(s) ==
  Bind(s, LAMBDA t : Bind(JSONValueAt(t, SkipWs(t, 1)), LAMBDA r :
    IF r.ok /\ SkipWs(t, r.i) = Len(t) + 1 THEN [ok |-> TRUE, v |-> r.v]
    ELSE [ok |-> FALSE, v |-> Undefined]))

(***************************************************************************)
(* extractJSON (server.js:40-107)                                          *)
(***************************************************************************)
\* server.js:46  cleanText.replace(/^```json\s*/, '')
StripFenceJson(t) ==
  IF StartsWithAt(t, 1, Fence \o "json") THEN From(t, SkipWs(t, Len(Fence) + 5)) ELSE t

\* server.js:47  cleanText.replace(/^```\s*/, '')
StripFenceOpen(t) ==
  IF StartsWithAt(t, 1, Fence) THEN From(t, SkipWs(t, Len(Fence) + 1)) ELSE t

\* server.js:48  cleanText.replace(/\s*```$/, ''): the fence that ends the
\* text, with the white space before it.
StripFenceClose(t) ==
  LET f == Len(t) - Len(Fence) + 1
      k == SkipWsBack(t, f - 1)
  IN  IF StartsWithAt(t, f, Fence)
      THEN (IF k < 1 THEN "" ELSE SubSeq(t, 1, k))
      ELSE t

\* cleanText with every fence taken out, wherever it is.
CleanText_EveryFence(text) ==
  Bind(ReplaceAll(text, Fence \o "json", ""), LAMBDA a : Trim(ReplaceAll(a, Fence, "")))

\* server.js:43-48
CleanText(text) ==
  Bind(Trim(text), LAMBDA a : Bind(StripFenceJson(a), LAMBDA b :
    Bind(StripFenceOpen(b), LAMBDA c : StripFenceClose(c))))

\* server.js:51  cleanText.match(/\{[\s\S]*\}/): from the first "{" to the
\* last "}" after it; found = FALSE is the null of no match.
JsonMatch(t) ==
  Bind(t, LAMBDA u : Bind(<<u, IndexOf(u, "{"), LastMatch(u, "}", 1, Len(u))>>, LAMBDA m :
    IF m[2] >= 1 /\ m[3] > m[2] THEN [found |-> TRUE, str |-> SubSeq(m[1], m[2], m[3])]
    ELSE [found |-> FALSE, str |-> ""]))

\* A lower-case letter.
IsLower(c) == c # "" /\ IndexOf("abcdefghijklmnopqrstuvwxyz", c) # 0

\* Where the match of /"<key>":\s*(\d+\.?\d*)ms/ that starts at i ends
\* (the index after it) and its group $1; ok = FALSE when none starts there.
MsMatchAt(t, key, i) ==
  Bind("\"" \o key \o "\":", LAMBDA pre :
  Bind(SkipWs(t, i + Len(pre)), LAMBDA a :
  Bind(DigitsEnd(t, a), LAMBDA d :
  Bind(IF At(t, d) = "." THEN DigitsEnd(t, d + 1) ELSE d, LAMBDA f :
    IF StartsWithAt(t, i, pre) /\ d > a /\ StartsWithAt(t, f, "ms")
    THEN [ok |-> TRUE, group |-> SubSeq(t, a, f - 1), i |-> f + 2]
    ELSE [ok |-> FALSE, group |-> "", i |-> 0]))))

RECURSIVE RemoveMs_AnyUnit(_, _)
\* The repair taking the letters after the number away, whatever they are.
RemoveMs_AnyUnit(jsonStr, key) ==
  Bind(jsonStr, LAMBDA t : Bind(IndexOf(t, "\"" \o key \o "\":"), LAMBDA i :
    LET pre == "\"" \o key \o "\":"
        a == SkipWs(t, i + Len(pre))
        d == DigitsEnd(t, a)
        f == IF At(t, d) = "." THEN DigitsEnd(t, d + 1) ELSE d
        u == CHOOSE k \in f..(Len(t) + 1) :
               /\ \A j \in f..(k - 1) : IsLower(At(t, j))
               /\ ~IsLower(At(t, k))
    IN  IF i = 0 THEN t
        ELSE IF d > a /\ u > f
             THEN SubSeq(t, 1, i - 1) \o pre \o " " \o SubSeq(t, a, f - 1)
                  \o RemoveMs_AnyUnit(From(t, u), key)
             ELSE SubSeq(t, 1, i + Len(pre) - 1)
                  \o RemoveMs_AnyUnit(From(t, i + Len(pre)), key)))

RECURSIVE RemoveMs(_, _)
\* server.js:60-61  jsonStr.replace(/"<key>":\s*(\d+\.?\d*)ms/g, '"<key>": $1')
\* The scan goes from one occurrence of "<key>": to the next.
RemoveMs(jsonStr, key) ==
  Bind(jsonStr, LAMBDA t : Bind(IndexOf(t, "\"" \o key \o "\":"), LAMBDA i :
    Bind(<<"\"" \o key \o "\":", MsMatchAt(t, key, i)>>, LAMBDA m :
      IF i = 0 THEN t
      ELSE IF m[2].ok
           THEN SubSeq(t, 1, i - 1) \o m[1] \o " " \o m[2].group
                \o RemoveMs(From(t, m[2].i), key)
           ELSE SubSeq(t, 1, i + Len(m[1]) - 1) \o RemoveMs(From(t, i + Len(m[1])), key))))

\* server.js:64-66: the three entity substitutions, in the code's order.
UnescapeEntities(t) ==
  ReplaceAll(ReplaceAll(ReplaceAll(t, "&amp;#39;", "'"), "&amp;quot;", "\""),
             "&amp;", "&")

\* server.js:57-66
Repair(jsonStr) ==
  Bind(RemoveMs(jsonStr, "start"), LAMBDA a : Bind(RemoveMs(a, "end"), LAMBDA b :
    UnescapeEntities(b)))

\* server.js:81-86: a string start or end is replaced by its parseFloat.
\* A primitive or array element has no such property and is left alone.
CoerceField(segment, key) ==
  IF typeof(Get(segment, key)) = "string"
  THEN Put(segment, key, parseFloat(Get(segment, key).s))
  ELSE segment

Coerce(segment) ==
  Bind(CoerceField(segment, "start"), LAMBDA s : CoerceField(s, "end"))

\* isValid without the typeof check on text of server.js:91.
isValid_AnyText(segment) ==
  /\ ~isNaN(Get(segment, "start"))
  /\ ~isNaN(Get(segment, "end"))
  /\ GreaterEq(Get(segment, "start"), Num(0))
  /\ GreaterThan(Get(segment, "end"), Get(segment, "start"))

\* isValid with start > 0 for start >= 0.
isValid_Positive(segment) ==
  /\ ~isNaN(Get(segment, "start"))
  /\ ~isNaN(Get(segment, "end"))
  /\ typeof(Get(segment, "text")) = "string"
  /\ GreaterThan(Get(segment, "start"), Num(0))
  /\ GreaterThan(Get(segment, "end"), Get(segment, "start"))

\* server.js:88-93, on the coerced segment.
isValid(segment) ==
  /\ ~isNaN(Get(segment, "start"))
  /\ ~isNaN(Get(segment, "end"))
  /\ typeof(Get(segment, "text")) = "string"
  /\ GreaterEq(Get(segment, "start"), Num(0))
  /\ GreaterThan(Get(segment, "end"), Get(segment, "start"))

\* Reading a property of null is a TypeError.
ThrowsOnRead(segment) == segment.t \in {"null", "undef"}

RECURSIVE FilterSegments_Reversed(_)
\* The filter putting each valid element before the ones it has kept.
FilterSegments_Reversed(a) ==
  IF a = <<>> THEN <<>>
  ELSE Bind(Coerce(Head(a)), LAMBDA segment :
         IF isValid(segment) THEN FilterSegments_Reversed(Tail(a)) \o <<segment>>
         ELSE FilterSegments_Reversed(Tail(a)))

RECURSIVE FilterSegments(_)
\* server.js:79-99  parsed.adSegments.filter(...): the valid elements,
\* coerced, in order.
FilterSegments(a) ==
  IF a = <<>> THEN <<>>
  ELSE Bind(Coerce(Head(a)), LAMBDA segment :
         IF isValid(segment) THEN <<segment>> \o FilterSegments(Tail(a))
         ELSE FilterSegments(Tail(a)))

Threw == [threw |-> TRUE, v |-> Undefined]

Returned(v) == [threw |-> FALSE, v |-> v]

EmptyResult == Obj(<<Member("adSegments", Arr(<<>>))>>)

\* ParseAndFilter without the Array.isArray check of server.js:73-76: a parsed
\* object whose adSegments is no list is returned as it is.
ParseAndFilter_KeepParsed(jsonStr) ==
  Bind(JSONParse(jsonStr), LAMBDA json : Bind(Get(json.v, "adSegments"), LAMBDA segs :
    IF ~json.ok THEN Threw
    ELSE IF segs.t # "arr" THEN Returned(json.v)
    ELSE IF \E i \in 1..Len(segs.a) : ThrowsOnRead(segs.a[i]) THEN Threw
    ELSE Returned(Put(json.v, "adSegments", Arr(FilterSegments(segs.a))))))

\* server.js:70-101: from JSON.parse on.
ParseAndFilter(jsonStr) ==
  Bind(JSONParse(jsonStr), LAMBDA json : Bind(Get(json.v, "adSegments"), LAMBDA segs :
    IF ~json.ok THEN Threw
    ELSE IF segs.t # "arr" THEN Returned(EmptyResult)
    ELSE IF \E i \in 1..Len(segs.a) : ThrowsOnRead(segs.a[i]) THEN Threw
    ELSE Returned(Put(json.v, "adSegments", Arr(FilterSegments(segs.a))))))

\* server.js:42-101, the body of the try block: what it returns, or that it
\* threw. text is any value: trim is a method of strings only.
ExtractJSONTry(text) ==
  IF text.t # "str" THEN Threw
  ELSE Bind(JsonMatch(CleanText(text.s)), LAMBDA jsonMatch :
         IF ~jsonMatch.found THEN Returned(EmptyResult)
         ELSE ParseAndFilter(Repair(jsonMatch.str)))

\* extractJSON without the catch block of server.js:102-106.
extractJSON_NoCatch(text) == ExtractJSONTry(text)

\* server.js:40-107: the catch block returns the empty result.
extractJSON(text) ==
  Bind(ExtractJSONTry(text), LAMBDA r : IF r.threw THEN Returned(EmptyResult) ELSE r)

(***************************************************************************)
(* getVideoId (server.js:29-37): new URL(url) and searchParams.get('v')    *)
(***************************************************************************)
Letters == "abcdefghijklmnopqrstuvwxyzABCDEFGHIJKLMNOPQRSTUVWXYZ"

IsAlpha(c) == c # "" /\ IndexOf(Letters, c) # 0

IsSchemeChar(c) == IsAlpha(c) \/ IsDigit(c) \/ c \in {"+", "-", "."}

SpecialSchemes == {"http", "https", "ftp", "ws", "wss"}

\* The least index >= i of one of the characters of stops in s, Len(s) + 1
\* when none is there.
FirstOf(s, stops, i) ==
  Bind({FirstMatch(s, At(stops, k), i, Len(s)) : k \in 1..Len(stops)} \ {0}, LAMBDA hits :
    IF hits = {} THEN Len(s) + 1 ELSE CHOOSE j \in hits : \A h \in hits : j <= h)

RECURSIVE SkipSlashes(_, _)
SkipSlashes(s, i) == IF At(s, i) \in {"/", "\\"} THEN SkipSlashes(s, i + 1) ELSE i

\* new URL(s) without a base, for the URLs of the model's texts (no
\* credentials, port or non-ASCII host): ok = FALSE is the TypeError of a
\* string that has no scheme, or a special scheme and an empty host.
\* query is the text between the first "?" and the fragment.
ParseURL(s) ==
  Bind(Trim(s), LAMBDA t : Bind(IndexOf(t, ":"), LAMBDA c :
    LET scheme == IF c > 1 THEN SubSeq(t, 1, c - 1) ELSE ""
        hasScheme == /\ c > 1
                     /\ IsAlpha(At(t, 1))
                     /\ \A k \in 2..(c - 1) : IsSchemeChar(At(t, k))
    IN  IF ~hasScheme THEN [ok |-> FALSE, query |-> ""]
        ELSE Bind(SkipSlashes(t, c + 1), LAMBDA h0 :
             Bind(<<FirstOf(t, "/\\?#", h0), FirstOf(t, "#", 1), FirstOf(t, "?", 1)>>,
                  LAMBDA f :
               LET h1 == f[1]
                   hash == f[2]
                   q == f[3]
               IN  IF scheme \in SpecialSchemes /\ h1 = h0
                   THEN [ok |-> FALSE, query |-> ""]
                   ELSE [ok |-> TRUE,
                         query |-> IF q + 1 < hash THEN SubSeq(t, q + 1, hash - 1)
                                   ELSE ""]))))

HexDigits == "0123456789abcdef0123456789ABCDEF"

IsHex(c) == c # "" /\ IndexOf(HexDigits, c) # 0

HexVal(c) == (IndexOf(HexDigits, c) - 1) % 16

\* The character of code n, for the printable codes of Ascii; "" otherwise.
CodeChar(n) == IF n >= 32 /\ n <= 125 THEN At(Ascii, n - 28) ELSE ""

RECURSIVE PercentDecode(_)
\* Percent-decoding: %XX becomes the character of that code, and a "%" not
\* followed by two hex digits stays. (The model's texts escape printable
\* ASCII only.)
PercentDecode(s) ==
  Bind(s, LAMBDA t : Bind(IndexOf(t, "%"), LAMBDA i :
    LET n == 16 * HexVal(At(t, i + 1)) + HexVal(At(t, i + 2))
    IN  IF i = 0 THEN t
        ELSE IF IsHex(At(t, i + 1)) /\ IsHex(At(t, i + 2)) /\ CodeChar(n) # ""
             THEN SubSeq(t, 1, i - 1) \o CodeChar(n) \o PercentDecode(From(t, i + 3))
             ELSE SubSeq(t, 1, i) \o PercentDecode(From(t, i + 1))))

\* application/x-www-form-urlencoded decoding of a name or a value.
FormDecode(s) == PercentDecode(ReplaceAll(s, "+", " "))

RECURSIVE SearchParamsGet(_, _)
\* url.searchParams.get(name): the value of the first pair of that name in
\* the query (pairs split at "&", name and value at the first "="), null
\* when no pair has the name.
SearchParamsGet(query, name) ==
  Bind(query, LAMBDA q : Bind(IndexOf(q, "&"), LAMBDA a :
    Bind(IF a = 0 THEN q ELSE SubSeq(q, 1, a - 1), LAMBDA piece :
    Bind(IndexOf(piece, "="), LAMBDA eq :
      LET n == IF eq = 0 THEN piece ELSE SubSeq(piece, 1, eq - 1)
          v == IF eq = 0 THEN "" ELSE From(piece, eq + 1)
      IN  IF q = "" THEN Null
          ELSE IF piece # "" /\ FormDecode(n) = name THEN Str(FormDecode(v))
          ELSE IF a = 0 THEN Null
          ELSE SearchParamsGet(From(q, a + 1), name)))))

\* getVideoId reading v from whatever follows the first "?" of the text,
\* without parsing the text as a URL.
getVideoId_AnyText(url) ==
  Bind(JSToString(url), LAMBDA t : Bind(IndexOf(t, "?"), LAMBDA q :
    IF q = 0 THEN Null ELSE SearchParamsGet(From(t, q + 1), "v")))

\* server.js:29-37. url is any value: the URL constructor converts it to a
\* string; a URL that does not parse gives null (the catch block).
getVideoId(url) ==
  Bind(JSToString(url), LAMBDA s : Bind(ParseURL(s), LAMBDA urlObj :
    IF ~urlObj.ok THEN Null ELSE SearchParamsGet(urlObj.query, "v")))

(***************************************************************************)
(* The server: POST /analyze-video (server.js:110-226) and the error       *)
(* middleware (server.js:229-236)                                          *)
(***************************************************************************)
\* How many requests the model keeps the state of.
NumReqs == 2

Reqs == 1..NumReqs

VARIABLES
  pc,               \* per request: where its handling stands
  req,              \* per request: what express.json() made of the body
  transcript,       \* per request: the handler's variable transcript
  analysisText,     \* per request: the handler's variable analysisText
  res,              \* per request: the response sent
  sent,             \* per request: how many responses were sent
  transcriptCalls,  \* per request: its fetchTranscript calls (videoId, outcome)
  aiCalls,          \* per request: its generateContent calls (transcriptText, outcome)
  aiErrors,         \* per request: the errors the AI client threw at it
  genAI,            \* the AI client handle made at startup
  text,             \* the sanitizer on its own: the argument of extractJSON
  result,           \* the sanitizer on its own: what the call came to
  phase             \* the sanitizer on its own: "off", "ready" or "done"

vars == <<pc, req, transcript, analysisText, res, sent, transcriptCalls, aiCalls,
          aiErrors, genAI, text, result, phase>>

serverVars == <<pc, req, transcript, analysisText, res, sent, transcriptCalls, aiCalls,
                aiErrors, genAI>>

sanVars == <<text, result, phase>>

\* ToBoolean.
Truthy(v) ==
  CASE v.t \in {"undef", "null"} -> FALSE
    [] v.t = "bool" -> v.b
    [] v.t = "num" -> ~(v.k = "nan" \/ (v.k = "fin" /\ v.m = 0))
    [] v.t = "str" -> v.s # ""
    [] OTHER -> TRUE

\* The property length of a value.
Length(v) ==
  CASE v.t = "arr" -> Num(Len(v.a))
    [] v.t = "str" -> Num(Len(v.s))
    [] OTHER -> Get(v, "length")

NoResponse == [status |-> 0, body |-> Undefined]

\* server.js:114-118, 126-130, 139-143, 147-151, 220-224, 231-235
ErrorBody(message) ==
  Obj(<<Member("error", Str(message)),
        Member("transcript", Arr(<<>>)),
        Member("adSegments", Arr(<<>>))>>)

\* res.status(status).json(body)
Send(r, status, body) ==
  /\ res' = [res EXCEPT ![r] = [status |-> status, body |-> body]]
  /\ sent' = [sent EXCEPT ![r] = @ + 1]
  /\ pc' = [pc EXCEPT ![r] = "done"]

\* The catch block sending the error alone, without the two empty lists.
Unexpected_Bare(r) ==
  Send(r, 500, Obj(<<Member("error",
                            Str("An unexpected error occurred while analyzing the video"))>>))

\* The catch block ending the request without a response.
Unexpected_Silent(r) ==
  /\ pc' = [pc EXCEPT ![r] = "done"]
  /\ UNCHANGED <<res, sent>>

\* server.js:220-224, the handler's catch block.
Unexpected(r) ==
  Send(r, 500, ErrorBody("An unexpected error occurred while analyzing the video"))

RECURSIVE TranscriptLines(_)
\* server.js:155  transcript.map(t => `[${t.offset}s]: ${t.text}`)
TranscriptLines(a) ==
  IF a = <<>> THEN <<>>
  ELSE <<"[" \o JSToString(Get(Head(a), "offset")) \o "s]: "
             \o JSToString(Get(Head(a), "text"))>> \o TranscriptLines(Tail(a))

RECURSIVE JoinLines(_)
\* server.js:155  .join('\n')
JoinLines(l) ==
  IF l = <<>> THEN ""
  ELSE Head(l) \o (IF Len(l) = 1 THEN "" ELSE "\n" \o JoinLines(Tail(l)))

\* server.js:155: map is a method of arrays only, and reading a property of
\* a null element throws.
TranscriptTextThrows(t) ==
  t.t # "arr" \/ \E i \in 1..Len(t.a) : ThrowsOnRead(t.a[i])

TranscriptText(t) == JoinLines(TranscriptLines(t.a))

\* A call of a collaborator: its argument, and how it ended ("pending",
\* "returned" or "threw").
Call(arg) == [arg |-> arg, outcome |-> "pending"]

\* The calls with the last one ended.
Ended(calls, how) == [calls EXCEPT ![Len(calls)].outcome = how]

\* The check of server.js:113 as videoUrl === undefined.
MissingUrl_Undefined(videoUrl) == videoUrl.t = "undef"

\* server.js:113  !videoUrl
MissingUrl(videoUrl) == ~Truthy(videoUrl)

\* server.js:125  !videoId
NoVideoId(videoId) == ~Truthy(videoId)

\* The check of server.js:146 without its length test.
NoTranscript_Missing(t) == ~Truthy(t)

\* server.js:146  !transcript || transcript.length === 0
NoTranscript(t) == ~Truthy(t) \/ Length(t) = Num(0)

\* server.js:26: express.json() has read the body of a request. A body
\* that is no JSON goes to the error middleware, any other to the handler.
Receive(r, body) ==
  /\ pc[r] = "idle"
  /\ req' = [req EXCEPT ![r] = body]
  /\ pc' = [pc EXCEPT ![r] = IF body.malformed THEN "bodyError" ELSE "handler"]
  /\ UNCHANGED <<transcript, analysisText, res, sent, transcriptCalls, aiCalls, aiErrors, genAI, sanVars>>

\* server.js:229-236
ErrorMiddleware(r) ==
  /\ pc[r] = "bodyError"
  /\ Send(r, 500, ErrorBody("Internal Server Error"))
  /\ UNCHANGED <<req, transcript, analysisText, transcriptCalls, aiCalls, aiErrors, genAI, sanVars>>

\* server.js:111-136: the handler up to its first await.
AnalyzeVideo(r) ==
  /\ pc[r] = "handler"
  /\ \E videoUrl \in {Get(req[r].body, "videoUrl")} :
       IF MissingUrl(videoUrl)
       THEN /\ Send(r, 400, ErrorBody("Video URL is required"))
            /\ UNCHANGED transcriptCalls
       ELSE \E videoId \in {getVideoId(videoUrl)} :
         IF NoVideoId(videoId)
         THEN /\ Send(r, 400, ErrorBody("Invalid YouTube URL"))
              /\ UNCHANGED transcriptCalls
         ELSE /\ transcriptCalls' = [transcriptCalls EXCEPT ![r] = Append(@, Call(videoId))]
              /\ pc' = [pc EXCEPT ![r] = "awaitTranscript"]
              /\ UNCHANGED <<res, sent>>
  /\ UNCHANGED <<req, transcript, analysisText, aiCalls, aiErrors, genAI, sanVars>>

\* The catch of fetchTranscript calling it once more before giving up.
TranscriptThrows_Retry(r) ==
  /\ pc[r] = "awaitTranscript"
  /\ IF Len(transcriptCalls[r]) < 2
     THEN /\ transcriptCalls' = [transcriptCalls EXCEPT ![r] =
                                   Append(Ended(@, "threw"), Call(@[1].arg))]
          /\ UNCHANGED <<pc, res, sent>>
     ELSE /\ transcriptCalls' = [transcriptCalls EXCEPT ![r] = Ended(@, "threw")]
          /\ Send(r, 404, ErrorBody(
               "Could not fetch video transcript. The video might not have captions available."))
  /\ UNCHANGED <<req, transcript, analysisText, aiCalls, aiErrors, genAI, sanVars>>

\* server.js:137-144: fetchTranscript rejected.
TranscriptThrows(r) ==
  /\ pc[r] = "awaitTranscript"
  /\ transcriptCalls' = [transcriptCalls EXCEPT ![r] = Ended(@, "threw")]
  /\ Send(r, 404, ErrorBody(
       "Could not fetch video transcript. The video might not have captions available."))
  /\ UNCHANGED <<req, transcript, analysisText, aiCalls, aiErrors, genAI, sanVars>>

\* server.js:136, 146-196: fetchTranscript resolved with reply; the handler
\* runs up to its second await.
TranscriptReturns(r, reply) ==
  /\ pc[r] = "awaitTranscript"
  /\ transcriptCalls' = [transcriptCalls EXCEPT ![r] = Ended(@, "returned")]
  /\ transcript' = [transcript EXCEPT ![r] = reply]
  /\ IF NoTranscript(reply)
     THEN /\ Send(r, 404, ErrorBody("No transcript available for this video"))
          /\ UNCHANGED aiCalls
     ELSE IF TranscriptTextThrows(reply)
     THEN /\ Unexpected(r)
          /\ UNCHANGED aiCalls
     ELSE /\ aiCalls' = [aiCalls EXCEPT ![r] = Append(@, Call(Str(TranscriptText(reply))))]
          /\ pc' = [pc EXCEPT ![r] = "awaitAI"]
          /\ UNCHANGED <<res, sent>>
  /\ UNCHANGED <<req, analysisText, aiErrors, genAI, sanVars>>

\* responseToSend with the whole analysis as its adSegments.
ResponseToSend_Whole(t, analysis) ==
  Obj(<<Member("transcript", t), Member("adSegments", analysis)>>)

\* server.js:206-209
ResponseToSend(t, analysis) ==
  Obj(<<Member("transcript", t), Member("adSegments", Get(analysis, "adSegments"))>>)

\* The handler with its transcript in a variable of the module, which the
\* request that fetched last has set.
AIReturns_Shared(r, reply) ==
  /\ pc[r] = "awaitAI"
  /\ aiCalls' = [aiCalls EXCEPT ![r] = Ended(@, "returned")]
  /\ analysisText' = [analysisText EXCEPT ![r] = Str(reply)]
  /\ \E analysis \in {extractJSON(Str(reply))}, q \in Reqs :
       /\ transcript[q] # Undefined
       /\ \A o \in Reqs : transcript[o] # Undefined => o <= q
       /\ Send(r, 200, ResponseToSend(transcript[q], analysis.v))
  /\ UNCHANGED <<req, transcript, transcriptCalls, aiErrors, genAI, sanVars>>

\* server.js:196-217: generateContent resolved and response.text() gave
\* reply; the handler runs to its end.
AIReturns(r, reply) ==
  /\ pc[r] = "awaitAI"
  /\ aiCalls' = [aiCalls EXCEPT ![r] = Ended(@, "returned")]
  /\ analysisText' = [analysisText EXCEPT ![r] = Str(reply)]
  /\ \E analysis \in {extractJSON(Str(reply))} :
       IF analysis.threw
       THEN Unexpected(r)
       ELSE Send(r, 200, ResponseToSend(transcript[r], analysis.v))
  /\ UNCHANGED <<req, transcript, transcriptCalls, aiErrors, genAI, sanVars>>

\* AIThrows with the catch block sending the message of the error it caught.
AIThrows_Leak(r, error) ==
  /\ pc[r] = "awaitAI"
  /\ aiCalls' = [aiCalls EXCEPT ![r] = Ended(@, "threw")]
  /\ aiErrors' = [aiErrors EXCEPT ![r] = Append(@, error)]
  /\ Send(r, 500, ErrorBody(error))
  /\ UNCHANGED <<req, transcript, analysisText, transcriptCalls, genAI, sanVars>>

\* server.js:196-198, 218-225: generateContent rejected, or response.text()
\* threw, with an error of this message.
AIThrows(r, error) ==
  /\ pc[r] = "awaitAI"
  /\ aiCalls' = [aiCalls EXCEPT ![r] = Ended(@, "threw")]
  /\ aiErrors' = [aiErrors EXCEPT ![r] = Append(@, error)]
  /\ Unexpected(r)
  /\ UNCHANGED <<req, transcript, analysisText, transcriptCalls, genAI, sanVars>>

\* server.js:136, 146-158, 218-225: fetchTranscript resolved with a reply
\* the handler goes on with, and genAI.getGenerativeModel threw.
ModelThrows(r, reply, error) ==
  /\ pc[r] = "awaitTranscript"
  /\ ~NoTranscript(reply) /\ ~TranscriptTextThrows(reply)
  /\ transcriptCalls' = [transcriptCalls EXCEPT ![r] = Ended(@, "returned")]
  /\ transcript' = [transcript EXCEPT ![r] = reply]
  /\ aiErrors' = [aiErrors EXCEPT ![r] = Append(@, error)]
  /\ Unexpected(r)
  /\ UNCHANGED <<req, analysisText, aiCalls, genAI, sanVars>>

(***************************************************************************)
(* The environment: request bodies, the Transcript Provider's replies and  *)
(* the texts the AI client returns                                         *)
(***************************************************************************)
\* The longest query (in pairs) of a generated URL, the longest adSegments
\* list of a generated AI text, the longest text of arbitrary characters.
MaxParams == 2
MaxSegs == 2
MaxGarbage == 4

SeqsUpTo(S, n) == UNION {[1..k -> S] : k \in 0..n}

\* A query pair as a client writes it: name, "=" if eq, value.
Pair(n, eq, v) == [n |-> n, eq |-> eq, v |-> v]

PairText(q) == q.n \o (IF q.eq THEN "=" \o q.v ELSE "")

Pairs ==
  {Pair("v", TRUE, "abc"), Pair("v", TRUE, ""), Pair("v", FALSE, ""),
   Pair("t", TRUE, "10"), Pair("list", TRUE, "v")}

RECURSIVE JoinWith(_, _)
JoinWith(l, sep) ==
  IF l = <<>> THEN ""
  ELSE Head(l) \o (IF Len(l) = 1 THEN "" ELSE sep \o JoinWith(Tail(l), sep))

QueryText(ps) == JoinWith([i \in 1..Len(ps) |-> PairText(ps[i])], "&")

\* What comes before the query: two that are URLs and one that has no
\* scheme.
UrlHeads ==
  {"https://www.youtube.com/watch", "https://youtu.be/abc", "youtube.com/watch"}

UrlFragments == {"", "#v=frag"}

UrlText(head, ps, frag) ==
  head \o (IF ps = <<>> THEN "" ELSE "?" \o QueryText(ps)) \o frag

GeneratedUrls ==
  {UrlText(h, ps, f) : h \in UrlHeads, ps \in SeqsUpTo(Pairs, MaxParams), f \in UrlFragments}

\* URLs written by hand: escapes, white space, no slashes, another scheme,
\* no host, no URL at all.
OtherUrls ==
  {"https://www.youtube.com/watch?%76=a+b%41", "  https://www.youtube.com/watch?v=abc  ",
   "https:youtube.com?v=xyz", "mailto:someone?v=abc", "https://", "not a url",
   "https://www.youtube.com/watch?vv=abc&V=abc", "https://www.youtube.com/watch#?v=abc"}

\* The values of the body's videoUrl: strings and what else JSON can hold.
VideoUrls ==
  {Str(u) : u \in GeneratedUrls \cup OtherUrls \cup {""}}
  \cup {Null, Num(0), Num(5), Bool(FALSE), Bool(TRUE), Obj(<<>>), Arr(<<>>),
        Arr(<<Str("https://www.youtube.com/watch?v=abc")>>)}

JsonBody(body) == [malformed |-> FALSE, body |-> body]

\* What express.json() makes of a request: a body that is no JSON, a body
\* without videoUrl (an object, an array), a body with one.
Bodies ==
  {[malformed |-> TRUE, body |-> Undefined], JsonBody(Obj(<<>>)), JsonBody(Arr(<<>>)),
   JsonBody(Obj(<<Member("other", Str("https://www.youtube.com/watch?v=abc"))>>))}
  \cup {JsonBody(Obj(<<Member("videoUrl", u)>>)) : u \in VideoUrls}

Line(offset, t) == Obj(<<Member("offset", offset), Member("text", Str(t))>>)

Transcript1 == Arr(<<Line(Num(0), "welcome back")>>)

Transcript2 ==
  Arr(<<Line(Fin(125, 1), "this video is sponsored by"), Line(Num(3), "intro")>>)

\* What fetchTranscript resolves with: nothing, an empty list, a list of
\* lines, and a value that has a length and is no list.
TranscriptReplies ==
  {Undefined, Null, Arr(<<>>), Transcript1, Transcript2,
   Obj(<<Member("length", Num(1))>>)}

\* A string as a JSON string literal.
Quote(s) ==
  "\"" \o ReplaceAll(ReplaceAll(ReplaceAll(ReplaceAll(ReplaceAll(s,
            "\\", "\\\\"), "\"", "\\\""), "\n", "\\n"), "\r", "\\r"), "\t", "\\t")
  \o "\""

RECURSIVE JSONStringify(_)
\* JSON.stringify of a value (what res.json puts on the wire, server.js:217):
\* NaN and the infinities are written null, an undefined member is left
\* out, an undefined element is written null.
JSONStringify(v) ==
  CASE v.t \in {"null", "undef"} -> "null"
    [] v.t = "bool" -> (IF v.b THEN "true" ELSE "false")
    [] v.t = "num" -> (IF v.k = "fin" THEN NumberToString(v) ELSE "null")
    [] v.t = "str" -> Quote(v.s)
    [] v.t = "arr" ->
         "[" \o JoinWith([i \in 1..Len(v.a) |-> JSONStringify(v.a[i])], ",") \o "]"
    [] OTHER ->
         LET ms == SelectSeq(v.p, LAMBDA m : m.v.t # "undef")
         IN  "{" \o JoinWith([i \in 1..Len(ms) |->
                                Quote(ms[i].k) \o ":" \o JSONStringify(ms[i].v)], ",")
             \o "}"

\* An element of adSegments with the fields given; Undefined leaves the
\* field out.
Segment(start, end, t) ==
  Obj(SelectSeq(<<Member("start", start), Member("end", end), Member("text", t)>>,
                LAMBDA m : m.v.t # "undef"))

\* An element as the AI writes it: a space after each colon and comma, and
\* unit after the numbers of start and end.
ElementText(e, unit) ==
  IF e.t # "obj" THEN JSONStringify(e)
  ELSE "{" \o JoinWith([i \in 1..Len(e.p) |->
                 Quote(e.p[i].k) \o ": " \o JSONStringify(e.p[i].v)
                 \o (IF e.p[i].v.t = "num" /\ e.p[i].k \in {"start", "end"}
                     THEN unit ELSE "")], ", ")
       \o "}"

\* The reply the prompt asks for (server.js:179-188), with these elements.
ReplyText(elems, unit) ==
  "{\"adSegments\": ["
  \o JoinWith([i \in 1..Len(elems) |-> ElementText(elems[i], unit)], ", ")
  \o "]}"

Wraps == {"plain", "json fence", "fence", "prose", "space"}

\* What the AI puts around the object.
Wrap(w, j) ==
  CASE w = "json fence" -> Fence \o "json\n" \o j \o "\n" \o Fence
    [] w = "fence" -> Fence \o "\n" \o j \o "\n" \o Fence \o "\n"
    [] w = "prose" -> "Here are the ad segments:\n" \o j \o "\nLet me know."
    [] w = "space" -> " \n" \o j \o "\t "
    [] OTHER -> j

SegA == Segment(Num(10), Fin(205, 1), Str("sponsored by X"))
SegB == Segment(Num(0), Num(5), Str("use code Y"))
SegBackward == Segment(Num(30), Num(25), Str("bad"))
SegStrings == Segment(Str("12.5"), Str("20"), Str("c"))

\* The elements lists are made of.
ListElements == {SegA, SegB, SegBackward, SegStrings, Null, Str("x")}

StartValues ==
  {Num(0), Num(10), Fin(125, 1), Num(-1), Str("10"), Str("abc"), Str("7s"), Null,
   Bool(TRUE), Arr(<<Num(10)>>), Obj(<<>>), Undefined}

EndValues ==
  {Num(5), Num(10), Num(20), Str("20"), Str(""), Null, Arr(<<Num(5)>>), Undefined}

TextValues == {Str("ad"), Str(""), Num(1), Undefined}

\* Replies with one element, over every combination of field values.
OneElementTexts ==
  {ReplyText(<<Segment(s, e, t)>>, "") : s \in StartValues, e \in EndValues, t \in TextValues}

\* Replies with a list of elements: wrapped, or with a unit on the numbers.
ListTexts ==
  {Wrap(w, ReplyText(l, "")) : l \in SeqsUpTo(ListElements, MaxSegs), w \in Wraps}
  \cup {ReplyText(l, u) : l \in SeqsUpTo(ListElements, MaxSegs), u \in {"ms", "s"}}

GarbageAlphabet == {"{", "}", "\"", " ", "x"}

\* Every text of at most MaxGarbage characters of the alphabet.
GarbageTexts == {JoinWith(l, "") : l \in SeqsUpTo(GarbageAlphabet, MaxGarbage)}

\* Objects that hold no list of segments, and texts that are no object.
OtherTexts ==
  {"{}", "{\"adSegments\": 5}", "{\"adSegments\": \"none\"}", "{\"adSegments\": null}",
   "{\"adSegments\": {\"start\": 1, \"end\": 2, \"text\": \"ad\"}}", "{\"segments\": []}",
   "[]", "I could not find any sponsored segment.", "{\"adSegments\": [",
   "{\"adSegments\": [{\"start\": 1, \"end\": 2, \"text\": \"ad\"},]}",
   "{\"adSegments\": [], \"note\": \"no ads\"}",
   "{\"note\": \"one ad\", \"adSegments\": [{\"start\": 1, \"end\": 2, \"text\": \"ad\", \"confidence\": 0.9}]}"}

\* Segments that are valid as they are, over texts of every kind: plain,
\* empty, with characters JSON escapes, with braces and a fence, with an
\* entity, with what looks like a start in ms; and one that never ends.
ValidSegments ==
  {SegA, SegB,
   Segment(Num(1), Num(2), Str("")),
   Segment(Fin(125, 1), Num(20), Str("say \"hi\" \\ now\nor later")),
   Segment(Num(3), Num(4), Str("} " \o Fence \o " {")),
   Segment(Num(5), Num(6), Str("Q&amp;A")),
   Segment(Num(7), Num(8), Str("\"start\": 5ms")),
   Segment(Num(0), Infinity(1), Str("to the end"))}

ValidLists == SeqsUpTo(ValidSegments, MaxSegs)

\* JSON.stringify({ adSegments: l })
ListJSON(l) == JSONStringify(Obj(<<Member("adSegments", Arr(l))>>))

\* Serialised lists of valid segments.
RoundTexts == {ListJSON(l) : l \in ValidLists}

\* Texts of a segment with doubly escaped entities, once and repeated, and
\* with one escaped a third time.
EntityRaws ==
  {"it&amp;#39;s", "&amp;#39;&amp;#39;", "R&amp;D", "A&amp;B&amp;C",
   "say &amp;quot;hi&amp;quot;", "it&amp;amp;#39;s"}

\* The reply with one segment of that text.
EntityText(raw) == ReplyText(<<Segment(Num(1), Num(2), Str(raw))>>, "")

EntityTexts == {EntityText(raw) : raw \in EntityRaws}

\* A reply whose segment ends at "Infinity".
EndlessText == ReplyText(<<Segment(Str("0"), Str("Infinity"), Str("to the end"))>>, "")

\* What the AI writes after the numbers of start and end.
Units == {"ms", "s", "sec", " ms", "MS"}

UnitSegments == {Segment(Fin(125, 1), Num(20), Str("starts 5ms in")), SegB}

UnitLists == SeqsUpTo(UnitSegments, MaxSegs) \ {<<>>}

\* Replies whose numbers carry a unit.
UnitTexts == {ReplyText(l, u) : l \in UnitLists, u \in Units}

\* What the AI writes before and after the object: nothing, fences,
\* commentary, white space; no brace in any of them.
Prefixes ==
  {"", Fence \o "json\n", Fence \o "\n", "Sure! Here it is:\n" \o Fence \o "json\n", "  \n"}

Suffixes == {"", "\n" \o Fence, "\n" \o Fence \o "\nHope this helps.", " \t"}

\* Lists of SegB and of a segment with braces and a fence in its text.
FrameLists == SeqsUpTo({SegB, Segment(Num(3), Num(4), Str("} " \o Fence \o " {"))}, MaxSegs) \ {<<>>}

\* Serialised lists with something before and after.
FramedTexts ==
  {prefix \o ListJSON(l) \o suffix : prefix \in Prefixes, l \in FrameLists, suffix \in Suffixes}

SanTexts ==
  OneElementTexts \cup ListTexts \cup GarbageTexts \cup OtherTexts \cup RoundTexts
  \cup EntityTexts \cup {EndlessText} \cup UnitTexts \cup FramedTexts

\* Arguments of extractJSON that are no string.
NonStrings ==
  {Undefined, Null, Num(5), Bool(TRUE), Arr(<<>>), Obj(<<>>),
   Obj(<<Member("adSegments", Arr(<<SegA>>))>>)}

SanInputs == {Str(t) : t \in SanTexts} \cup NonStrings

MixedText == ReplyText(<<SegA, SegBackward>>, "")

\* The texts response.text() gives the handler.
AITexts ==
  {MixedText, Wrap("json fence", MixedText), ReplyText(<<>>, ""),
   ReplyText(<<SegB, SegA>>, "ms"), ReplyText(<<SegA, Null>>, ""),
   ReplyText(<<SegStrings>>, ""),
   ReplyText(<<Segment(Null, Num(5), Str("ad"))>>, ""),
   ReplyText(<<Segment(Arr(<<Num(10)>>), Arr(<<Num(5)>>), Str("ad"))>>, ""),
   ReplyText(<<Segment(Num(1), Num(2), Str(""))>>, ""),
   "I could not find any sponsored segment.", "{\"adSegments\": [", "{\"adSegments\": 5}"}

(***************************************************************************)
(* Specifications                                                          *)
(***************************************************************************)
\* server.js:14  new GoogleGenerativeAI(process.env.GEMINI_API_KEY)
Client == [apiKey |-> "GEMINI_API_KEY"]

\* The messages of the errors the AI client throws.
AIErrors == {"API key not valid. Please pass a valid API key.", "fetch failed"}

NoRequest == [malformed |-> FALSE, body |-> Undefined]

NoResult == [threw |-> FALSE, v |-> Undefined]

ServerInit ==
  /\ pc = [r \in Reqs |-> "idle"]
  /\ req = [r \in Reqs |-> NoRequest]
  /\ transcript = [r \in Reqs |-> Undefined]
  /\ analysisText = [r \in Reqs |-> Undefined]
  /\ res = [r \in Reqs |-> NoResponse]
  /\ sent = [r \in Reqs |-> 0]
  /\ transcriptCalls = [r \in Reqs |-> <<>>]
  /\ aiCalls = [r \in Reqs |-> <<>>]
  /\ aiErrors = [r \in Reqs |-> <<>>]
  /\ genAI = Client

\* The server after app.listen, no request received yet.
Init ==
  /\ ServerInit
  /\ text = Undefined
  /\ result = NoResult
  /\ phase = "off"

\* One request, handled alone, over every body and reply of the environment.
Next ==
  \/ \E body \in Bodies : Receive(1, body)
  \/ ErrorMiddleware(1)
  \/ AnalyzeVideo(1)
  \/ TranscriptThrows(1)
  \/ \E reply \in TranscriptReplies : TranscriptReturns(1, reply)
  \/ \E reply \in AITexts : AIReturns(1, reply)
  \/ \E error \in AIErrors : AIThrows(1, error)
  \/ \E reply \in TranscriptReplies, error \in AIErrors : ModelThrows(1, reply, error)

Spec == Init /\ [][Next]_vars

\* The bodies, replies, texts and errors of requests handled at once.
ConcBodies ==
  {[malformed |-> TRUE, body |-> Undefined], JsonBody(Obj(<<>>)),
   JsonBody(Obj(<<Member("videoUrl", Str("https://www.youtube.com/watch?v=abc"))>>))}

ConcReplies == {Arr(<<>>), Transcript1, Transcript2}

ConcAITexts == {MixedText, "I could not find any sponsored segment."}

ConcErrors == {"fetch failed"}

\* The steps of request r after it was received.
Proceed(r) ==
  \/ ErrorMiddleware(r)
  \/ AnalyzeVideo(r)
  \/ TranscriptThrows(r)
  \/ \E reply \in ConcReplies : TranscriptReturns(r, reply)
  \/ \E reply \in ConcAITexts : AIReturns(r, reply)
  \/ \E error \in ConcErrors : AIThrows(r, error)
  \/ \E reply \in ConcReplies, error \in ConcErrors : ModelThrows(r, reply, error)

\* Several requests, their steps interleaved at the awaits.
ConcNext ==
  \/ \E r \in Reqs, body \in ConcBodies : Receive(r, body)
  \/ \E r \in Reqs : Proceed(r)

SpecConc == Init /\ [][ConcNext]_vars

\* The event loop runs the step of a request that is ready, and a
\* collaborator that was called returns or throws.
Fairness == \A r \in Reqs : WF_vars(Proceed(r))

SpecLive == SpecConc /\ Fairness

\* extractJSON on its own: a caller about to call it with some argument.
SanInit ==
  /\ ServerInit
  /\ text \in SanInputs
  /\ result = NoResult
  /\ phase = "ready"

\* The call: result is what extractJSON returns, or that it threw.
Sanitize ==
  /\ phase = "ready"
  /\ result' = extractJSON(text)
  /\ phase' = "done"
  /\ UNCHANGED <<text, serverVars>>

SanNext == Sanitize

SpecSan == SanInit /\ [][SanNext]_vars

(***************************************************************************)
(* Claims                                                                  *)
(***************************************************************************)
\* The list extractJSON returned, once it has returned one.
ReturnedSegments ==
  IF phase = "done" /\ ~result.threw /\ Get(result.v, "adSegments").t = "arr"
  THEN Get(result.v, "adSegments").a
  ELSE <<>>

\* C1: extractJSON is total: for every input value, a string or not, the
\* call returns and does not throw, and the adSegments of what it returns is
\* a list.
C1_Total ==
  phase = "done" => (~result.threw /\ Get(result.v, "adSegments").t = "arr")

\* C1: a call whose try block threw (a value that is no string, a span that
\* is no JSON, a null element) has returned the empty result.
C1_Witness ==
  /\ phase = "done"
  /\ ExtractJSONTry(text).threw
  /\ result = Returned(EmptyResult)

\* No "{" of s has a "}" after it.
NoSpan(s) ==
  ~\E i \in 1..Len(s) : At(s, i) = "{" /\ \E j \in (i + 1)..Len(s) : At(s, j) = "}"

\* The span of s after the repairs.
RepairedSpan(s) == Repair(JsonMatch(CleanText(s)).str)

\* C3: for a string with no {...} span, or whose repaired span is no JSON,
\* or whose parsed adSegments is no list, extractJSON returns exactly
\* { adSegments: [] }.
C3_EmptyResult ==
  (/\ phase = "done"
   /\ text.t = "str"
   /\ \/ NoSpan(text.s)
      \/ ~JSONParse(RepairedSpan(text.s)).ok
      \/ Get(JSONParse(RepairedSpan(text.s)).v, "adSegments").t # "arr")
  => result = Returned(EmptyResult)

\* C3: a span that parses to an object with other members, and with an
\* adSegments that is no list, has given the empty result.
C3_Witness ==
  /\ phase = "done"
  /\ text.t = "str"
  /\ ~NoSpan(text.s)
  /\ JSONParse(RepairedSpan(text.s)).ok
  /\ JSONParse(RepairedSpan(text.s)).v # Obj(<<>>)
  /\ Get(JSONParse(RepairedSpan(text.s)).v, "adSegments").t # "arr"
  /\ result = Returned(EmptyResult)

\* The text has no span, or its repaired span is no JSON.
Malformed(s) == NoSpan(s) \/ ~JSONParse(RepairedSpan(s)).ok

\* C2: when the URL gave a video ID, the transcript came as a non-empty list
\* and the AI Assistant returned a text, the response is 200 and its body is
\* exactly { transcript, adSegments }: the transcript is the list the
\* provider returned, adSegments is what extractJSON makes of the text; so a
\* malformed text gives an empty list, and a text with one valid and one
\* invalid segment gives the valid one alone.
C2_Response ==
  \A r \in Reqs :
    (pc[r] = "done" /\ analysisText[r].t = "str") =>
      /\ transcript[r].t = "arr" /\ transcript[r].a # <<>>
      /\ res[r].status = 200
      /\ res[r].body =
           Obj(<<Member("transcript", transcript[r]),
                 Member("adSegments", Get(extractJSON(analysisText[r]).v, "adSegments"))>>)
      /\ Malformed(analysisText[r].s) => Get(res[r].body, "adSegments") = Arr(<<>>)
      /\ analysisText[r].s \in {MixedText, Wrap("json fence", MixedText)}
           => Get(res[r].body, "adSegments") = Arr(<<SegA>>)

\* C2: the text with SegA and the backward segment was answered with the
\* transcript and SegA alone.
C2_Witness ==
  \E r \in Reqs :
    /\ pc[r] = "done"
    /\ analysisText[r] = Str(MixedText)
    /\ res[r] = [status |-> 200,
                 body |-> Obj(<<Member("transcript", Transcript2),
                                Member("adSegments", Arr(<<SegA>>))>>)]

\* C4: every segment extractJSON returns has start >= 0 and end > start, as
\* numbers.
C4_Ordered ==
  \A i \in 1..Len(ReturnedSegments) :
    LET start == ToNumber(Get(ReturnedSegments[i], "start"))
        end == ToNumber(Get(ReturnedSegments[i], "end"))
    IN  /\ start.k # "nan" /\ end.k # "nan"
        /\ ~NumLess(start, Num(0))
        /\ NumLess(start, end)

\* C5, as stated: every segment extractJSON returns has a text that is a
\* non-empty string.
C5_NonEmptyText ==
  \A i \in 1..Len(ReturnedSegments) :
    /\ Get(ReturnedSegments[i], "text").t = "str"
    /\ Get(ReturnedSegments[i], "text").s # ""

\* C5, amended: every segment extractJSON returns has a text that is a
\* string, the empty string included; a segment whose text is no string is
\* never returned.
C5_TextIsString ==
  \A i \in 1..Len(ReturnedSegments) : Get(ReturnedSegments[i], "text").t = "str"

\* C5: a segment with the empty text was returned.
C5_Witness ==
  \E i \in 1..Len(ReturnedSegments) : Get(ReturnedSegments[i], "text") = Str("")

\* C6: every segment of a 200 response has a start and an end that are
\* numbers.
C6_Numeric ==
  \A r \in Reqs :
    res[r].status = 200 =>
      \A i \in 1..Len(Get(res[r].body, "adSegments").a) :
        /\ Get(Get(res[r].body, "adSegments").a[i], "start").t = "num"
        /\ Get(Get(res[r].body, "adSegments").a[i], "end").t = "num"

\* C7: every response of the handler or of the error middleware has status
\* 200, 400, 404 or 500, and the body of every one that is not 200 is
\* exactly { error: <string>, transcript: [], adSegments: [] }.
C7_Statuses ==
  \A r \in Reqs :
    res[r] # NoResponse =>
      /\ res[r].status \in {200, 400, 404, 500}
      /\ res[r].status # 200 =>
           /\ res[r].body.t = "obj"
           /\ Len(res[r].body.p) = 3
           /\ res[r].body.p[1].k = "error" /\ res[r].body.p[1].v.t = "str"
           /\ res[r].body.p[2] = Member("transcript", Arr(<<>>))
           /\ res[r].body.p[3] = Member("adSegments", Arr(<<>>))

\* C7: the handler's catch block has answered a request.
C7_Witness ==
  \E r \in Reqs :
    /\ res[r].status = 500
    /\ Get(res[r].body, "error")
         = Str("An unexpected error occurred while analyzing the video")

\* The request r has been received and its body has no videoUrl, or the
\* empty string as its videoUrl.
NoVideoUrl(r) ==
  /\ pc[r] # "idle"
  /\ ~req[r].malformed
  /\ \/ req[r].body.t # "obj"
     \/ ~HasKey(req[r].body, "videoUrl")
     \/ Get(req[r].body, "videoUrl") = Str("")

\* C8: a request whose body has no videoUrl, or an empty one, ends with 400
\* and the error 'Video URL is required', and neither the Transcript
\* Provider nor the AI Assistant is ever called for it.
C8_MissingUrl ==
  \A r \in Reqs :
    NoVideoUrl(r) =>
      /\ transcriptCalls[r] = <<>> /\ aiCalls[r] = <<>>
      /\ pc[r] \in {"handler", "done"}
      /\ pc[r] = "done" =>
           res[r] = [status |-> 400, body |-> ErrorBody("Video URL is required")]

\* C8: a request with the empty string as its videoUrl was answered 400.
C8_Witness ==
  \E r \in Reqs :
    /\ pc[r] = "done"
    /\ Get(req[r].body, "videoUrl") = Str("")
    /\ res[r].status = 400
    /\ transcriptCalls[r] = <<>>

\* The heads of UrlHeads that parse as URLs.
ParsingHeads == {"https://www.youtube.com/watch", "https://youtu.be/abc"}

\* The value of the first pair named v, null when there is none.
FirstV(ps) ==
  IF \E i \in 1..Len(ps) : ps[i].n = "v"
  THEN Str(ps[CHOOSE i \in 1..Len(ps) :
                 ps[i].n = "v" /\ \A j \in 1..(i - 1) : ps[j].n # "v"].v)
  ELSE Null

\* What getVideoId is to give for a URL a client made of these parts.
ExpectedId(head, ps) == IF head \in ParsingHeads THEN FirstV(ps) ELSE Null

\* Every URL of the environment with the video ID getVideoId is to give for
\* it: the generated ones by their parts, the ones written by hand one by
\* one.
ExpectedIds ==
  {<<UrlText(head, ps, frag), ExpectedId(head, ps)>> :
     head \in UrlHeads, ps \in SeqsUpTo(Pairs, MaxParams), frag \in UrlFragments}
  \cup
  {<<"https://www.youtube.com/watch?%76=a+b%41", Str("a bA")>>,
   <<"  https://www.youtube.com/watch?v=abc  ", Str("abc")>>,
   <<"https:youtube.com?v=xyz", Str("xyz")>>,
   <<"mailto:someone?v=abc", Str("abc")>>,
   <<"https://", Null>>,
   <<"not a url", Null>>,
   <<"https://www.youtube.com/watch?vv=abc&V=abc", Null>>,
   <<"https://www.youtube.com/watch#?v=abc", Null>>}

\* The request r went the way of a videoUrl whose video ID is id.
WentWith(r, id) ==
  IF id \in {Null, Str("")}
  THEN /\ pc[r] = "done"
       /\ res[r] = [status |-> 400, body |-> ErrorBody("Invalid YouTube URL")]
       /\ transcriptCalls[r] = <<>> /\ aiCalls[r] = <<>>
  ELSE /\ Len(transcriptCalls[r]) = 1
       /\ transcriptCalls[r][1].arg = id

\* C9: a videoUrl that does not parse as a URL, or has no v parameter, or an
\* empty one, ends with 400 and the error 'Invalid YouTube URL' without any
\* call of the Transcript Provider; for any other, getVideoId gives the
\* value of the (first) v parameter, which is what the provider is asked
\* for.
C9_VideoId ==
  \A r \in Reqs :
    (pc[r] \notin {"idle", "handler"} /\ Get(req[r].body, "videoUrl").t = "str") =>
      \A o \in ExpectedIds :
        Get(req[r].body, "videoUrl").s = o[1] => WentWith(r, o[2])

\* C9: the provider was asked for the value of v of a URL whose v comes
\* after a parameter whose value is v and before a fragment with a v.
C9_Witness ==
  \E r \in Reqs :
    /\ Get(req[r].body, "videoUrl") = Str("https://youtu.be/abc?list=v&v=abc#v=frag")
    /\ transcriptCalls[r] # <<>>
    /\ transcriptCalls[r][1].arg = Str("abc")

\* C10: when the Transcript Provider throws, the response is 404 with the
\* error of the missing captions; when it returns nothing or an empty list,
\* the response is 404 with 'No transcript available for this video'; in
\* both cases the AI Assistant is never called.
C10_NoTranscript ==
  \A r \in Reqs :
    transcriptCalls[r] # <<>> =>
      /\ transcriptCalls[r][1].outcome = "threw" =>
           /\ res[r] = [status |-> 404, body |-> ErrorBody(
                "Could not fetch video transcript. The video might not have captions available.")]
           /\ aiCalls[r] = <<>>
      /\ (/\ transcriptCalls[r][1].outcome = "returned"
          /\ transcript[r] \in {Undefined, Null, Arr(<<>>)}) =>
           /\ res[r] = [status |-> 404,
                        body |-> ErrorBody("No transcript available for this video")]
           /\ aiCalls[r] = <<>>

\* C10: the provider returned the empty list and the request was answered
\* 404.
C10_Witness ==
  \E r \in Reqs :
    /\ transcriptCalls[r] # <<>>
    /\ transcriptCalls[r][1].outcome = "returned"
    /\ transcript[r] = Arr(<<>>)
    /\ res[r].status = 404

\* C11: when the AI client throws (making the model, generating, or reading
\* the text of the response), the request ends with 500 and the one generic
\* message, the same for every error, and the message of the error thrown
\* is nowhere in the body.
C11_GenericError ==
  \A r \in Reqs :
    aiErrors[r] # <<>> =>
      /\ pc[r] = "done"
      /\ res[r] = [status |-> 500,
                   body |-> Obj(<<Member("error",
                                     Str("An unexpected error occurred while analyzing the video")),
                                  Member("transcript", Arr(<<>>)),
                                  Member("adSegments", Arr(<<>>))>>)]
      /\ \A i \in 1..Len(aiErrors[r]) :
           IndexOf(JSONStringify(res[r].body), aiErrors[r][i]) = 0

\* C11: generateContent was called and threw, and the request was answered.
C11_Witness ==
  \E r \in Reqs :
    /\ aiCalls[r] # <<>>
    /\ aiCalls[r][1].outcome = "threw"
    /\ aiErrors[r] = <<"fetch failed">>
    /\ res[r].status = 500

\* Every serialised list of valid segments, with the list.
RoundTrips == {<<ListJSON(l), l>> : l \in ValidLists}

\* C12, as stated: for every list of valid segments, whatever their texts,
\* extractJSON of the serialised { adSegments: list } returns the list.
C12_RoundTrip ==
  phase = "done" =>
    \A e \in RoundTrips :
      text = Str(e[1]) => result = Returned(Obj(<<Member("adSegments", Arr(e[2]))>>))

\* The segment has a finite start and end, and no &amp; in its text.
Plain(segment) ==
  /\ Get(segment, "start").k = "fin"
  /\ Get(segment, "end").k = "fin"
  /\ IndexOf(Get(segment, "text").s, "&amp;") = 0

\* C12, amended: the same for the lists whose segments have a finite start
\* and end and a text without &amp;.
C12_RoundTripPlain ==
  phase = "done" =>
    \A e \in RoundTrips :
      (text = Str(e[1]) /\ \A i \in 1..Len(e[2]) : Plain(e[2][i]))
        => result = Returned(Obj(<<Member("adSegments", Arr(e[2]))>>))

\* C12: a list of two segments, one starting at 0, one with quotes, a
\* backslash and a line break in its text, came back as it was.
C12_Witness ==
  /\ phase = "done"
  /\ Len(ReturnedSegments) = 2
  /\ ReturnedSegments[1] = SegB
  /\ Get(ReturnedSegments[2], "text") = Str("say \"hi\" \\ now\nor later")
  /\ text = Str(ListJSON(ReturnedSegments))

\* C13, as stated: for every input, extractJSON of the serialised result of
\* extractJSON is that result again.
C13_Idempotent ==
  (phase = "done" /\ ~result.threw) =>
    extractJSON(Str(JSONStringify(result.v))) = result

\* The result has no &amp; left in it and no start or end that is infinite.
Settled ==
  /\ IndexOf(JSONStringify(result.v), "&amp;") = 0
  /\ \A i \in 1..Len(ReturnedSegments) :
       \A key \in {"start", "end"} :
         Get(ReturnedSegments[i], key).t = "num" => Get(ReturnedSegments[i], key).k = "fin"

\* C13, amended: the same for every input whose result has no &amp; left in
\* it and no infinite start or end.
C13_IdempotentSettled ==
  (phase = "done" /\ ~result.threw /\ Settled) =>
    extractJSON(Str(JSONStringify(result.v))) = result

\* C13: a result of two segments, its strings made numbers, was returned,
\* and extractJSON makes the same of it again.
C13_Witness ==
  /\ phase = "done"
  /\ text = Str(ReplyText(<<SegStrings, SegB>>, ""))
  /\ Len(ReturnedSegments) = 2
  /\ Get(ReturnedSegments[1], "start") = Fin(125, 1)
  /\ extractJSON(Str(JSONStringify(result.v))) = result

\* Every reply whose numbers carry a unit, with its list and the unit.
UnitCases == {<<ReplyText(l, u), l, u>> : l \in UnitLists, u \in Units}

\* C14: the repair takes ms away where it follows the number of a start or
\* an end and changes nothing else, so that the segments are returned with
\* their numbers; any other unit stays, the parse fails and the result is
\* { adSegments: [] }.
C14_UnitRepair ==
  phase = "done" =>
    \A c \in UnitCases :
      text = Str(c[1]) =>
        IF c[3] = "ms"
        THEN /\ Repair(c[1]) = ReplyText(c[2], "")
             /\ result = Returned(Obj(<<Member("adSegments", Arr(c[2]))>>))
        ELSE /\ Repair(c[1]) = c[1]
             /\ result = Returned(Obj(<<Member("adSegments", Arr(<<>>))>>))

\* C14: the reply with "start": 12.5ms, "end": 20ms was returned as the
\* segment from 12.5 to 20, the ms in its text still there.
C14_Witness ==
  /\ phase = "done"
  /\ text = Str("{\"adSegments\": [{\"start\": 12.5ms, \"end\": 20ms, "
                \o "\"text\": \"starts 5ms in\"}]}")
  /\ ReturnedSegments = <<Segment(Fin(125, 1), Num(20), Str("starts 5ms in"))>>

\* Every reply with one segment whose text has entities, with the text one
\* unescaping makes of it (of the entity escaped a third time: either what
\* the substitutions give or the character itself).
EntityCases ==
  {<<EntityText("it&amp;#39;s"), {"it's"}>>,
   <<EntityText("&amp;#39;&amp;#39;"), {"''"}>>,
   <<EntityText("R&amp;D"), {"R&D"}>>,
   <<EntityText("A&amp;B&amp;C"), {"A&B&C"}>>,
   <<EntityText("say &amp;quot;hi&amp;quot;"), {"say \"hi\""}>>,
   <<EntityText("it&amp;amp;#39;s"), {"it&amp;#39;s", "it's"}>>}

\* C15: a segment whose text has the doubly escaped entities &amp;#39;,
\* &amp;quot; or &amp;, once or repeated, is returned with the characters
\* in its text.
C15_Entities ==
  phase = "done" =>
    \A c \in EntityCases :
      text = Str(c[1]) =>
        /\ Len(ReturnedSegments) = 1
        /\ Get(ReturnedSegments[1], "text").t = "str"
        /\ Get(ReturnedSegments[1], "text").s \in c[2]

\* What the filter is to make of an element of ListElements: itself, its
\* strings made numbers, or nothing.
ValidAs(e) ==
  CASE e = SegA -> <<SegA>>
    [] e = SegB -> <<SegB>>
    [] e = SegStrings -> <<Segment(Fin(125, 1), Num(20), Str("c"))>>
    [] OTHER -> <<>>

RECURSIVE ValidOf(_)
ValidOf(l) == IF l = <<>> THEN <<>> ELSE ValidAs(Head(l)) \o ValidOf(Tail(l))

\* Every reply with a list of elements, with the valid ones of the list.
FilterCases == {<<ReplyText(l, ""), ValidOf(l)>> : l \in SeqsUpTo(ListElements, MaxSegs)}

\* C16: whatever the elements of the parsed adSegments are, the list
\* returned is the valid ones of them, coerced, in their order; an invalid
\* element takes no valid one with it.
C16_Subsequence ==
  phase = "done" =>
    \A c \in FilterCases : text = Str(c[1]) => ReturnedSegments = c[2]

\* Every framed text, with its list and the object alone.
FramedCases ==
  {<<prefix \o ListJSON(l) \o suffix, l, ListJSON(l)>> :
     prefix \in Prefixes, l \in FrameLists, suffix \in Suffixes}

\* C17: with a prefix and a suffix that hold no brace around a JSON object,
\* extractJSON returns what it returns for the object alone, which is its
\* list; a fence inside the object stays.
C17_Span ==
  phase = "done" =>
    \A c \in FramedCases :
      text = Str(c[1]) =>
        /\ result = Returned(Obj(<<Member("adSegments", Arr(c[2]))>>))
        /\ result = extractJSON(Str(c[3]))

\* C17: the object between a comment with a json fence and a fence with a
\* comment was returned with the fence in the text of its segment.
C17_Witness ==
  /\ phase = "done"
  /\ text.t = "str"
  /\ StartsWithAt(text.s, 1, "Sure! Here it is:")
  /\ StartsWithAt(text.s, Len(text.s) - 15, "Hope this helps.")
  /\ Len(ReturnedSegments) = 1
  /\ Get(ReturnedSegments[1], "text") = Str("} " \o Fence \o " {")

\* C18: within a request the Transcript Provider is called at most once, and
\* only for a body with a videoUrl that gave a video ID; the AI client is
\* called at most once, and only after the provider returned a list that is
\* not empty; after either call failed no other call is made.
C18_CallOrder ==
  \A r \in Reqs :
    /\ Len(transcriptCalls[r]) <= 1
    /\ Len(aiCalls[r]) <= 1
    /\ transcriptCalls[r] # <<>> =>
         /\ ~req[r].malformed
         /\ Get(req[r].body, "videoUrl") \notin {Undefined, Null, Str("")}
         /\ transcriptCalls[r][1].arg.t = "str"
         /\ transcriptCalls[r][1].arg.s # ""
    /\ aiCalls[r] # <<>> =>
         /\ transcriptCalls[r] # <<>>
         /\ transcriptCalls[r][1].outcome = "returned"
         /\ transcript[r].t = "arr"
         /\ transcript[r].a # <<>>
    /\ (transcriptCalls[r] # <<>> /\ transcriptCalls[r][1].outcome = "threw") =>
         aiCalls[r] = <<>> /\ pc[r] = "done"
    /\ (aiCalls[r] # <<>> /\ aiCalls[r][1].outcome = "threw") => pc[r] = "done"

\* C18: a request ended after its one call of the provider and its one call
\* of the AI client, which threw.
C18_Witness ==
  \E r \in Reqs :
    /\ pc[r] = "done"
    /\ Len(transcriptCalls[r]) = 1
    /\ Len(aiCalls[r]) = 1
    /\ aiCalls[r][1].outcome = "threw"

\* C19: every request whose collaborators return or throw gets exactly one
\* response: never a second one, and never none once it has ended.
C19_OneResponse ==
  /\ [](\A r \in Reqs : sent[r] <= 1 /\ (pc[r] = "done" => sent[r] = 1))
  /\ \A r \in Reqs : (pc[r] # "idle") ~> [](sent[r] = 1 /\ res[r] # NoResponse)

\* C19: two requests handled at once have each got their one response, one
\* from the error middleware, one from the handler's catch block.
C19_Witness ==
  /\ sent[1] = 1 /\ sent[2] = 1
  /\ Get(res[1].body, "error") = Str("Internal Server Error")
  /\ Get(res[2].body, "error")
       = Str("An unexpected error occurred while analyzing the video")

\* What request r got from express and from its collaborators, and what the
\* handler made of it: everything the model keeps of the request.
Local(r) ==
  <<pc[r], req[r], transcript[r], analysisText[r], res[r], sent[r],
    transcriptCalls[r], aiCalls[r], aiErrors[r]>>

Reply(status, body) == [status |-> status, body |-> body]

\* The response of a request handled alone, from its body and from what its
\* collaborators answered (server.js:110-236 read from top to bottom).
Alone(r) ==
  Bind(Get(req[r].body, "videoUrl"), LAMBDA videoUrl :
    IF req[r].malformed THEN Reply(500, ErrorBody("Internal Server Error"))
    ELSE IF MissingUrl(videoUrl) THEN Reply(400, ErrorBody("Video URL is required"))
    ELSE IF NoVideoId(getVideoId(videoUrl)) THEN Reply(400, ErrorBody("Invalid YouTube URL"))
    ELSE IF transcriptCalls[r][1].outcome = "threw"
         THEN Reply(404, ErrorBody(
                "Could not fetch video transcript. The video might not have captions available."))
    ELSE IF NoTranscript(transcript[r])
         THEN Reply(404, ErrorBody("No transcript available for this video"))
    ELSE IF TranscriptTextThrows(transcript[r]) \/ aiErrors[r] # <<>>
         THEN Reply(500, ErrorBody("An unexpected error occurred while analyzing the video"))
    ELSE Bind(extractJSON(analysisText[r]), LAMBDA analysis :
           IF analysis.threw
           THEN Reply(500, ErrorBody("An unexpected error occurred while analyzing the video"))
           ELSE Reply(200, ResponseToSend(transcript[r], analysis.v))))

\* C20: however the steps of the requests interleave, a request that has
\* ended has the response its own body and its own collaborators' replies
\* give when it is handled alone; a step of one request changes nothing
\* that is kept of another; and the AI client handle stays as it was made.
C20_Independent ==
  /\ [](\A r \in Reqs : pc[r] = "done" => res[r] = Alone(r))
  /\ [][\A r \in Reqs : Local(r)' # Local(r) =>
          \A o \in Reqs \ {r} : Local(o)' = Local(o)]_vars
  /\ [](genAI = Client)

\* C20: two requests handled at once have both got their 200 response, each
\* with the transcript fetched for it, the two transcripts differing.
C20_Witness ==
  /\ pc[1] = "done" /\ pc[2] = "done"
  /\ res[1].status = 200 /\ res[2].status = 200
  /\ Get(res[1].body, "transcript") = Transcript1
  /\ Get(res[2].body, "transcript") = Transcript2
  /\ aiCalls[1][1].outcome = "returned" /\ aiCalls[2][1].outcome = "returned"

\* The request r has been received with a videoUrl that is a number, a
\* boolean, an array or an object.
NonStringUrl(r) ==
  /\ pc[r] # "idle"
  /\ ~req[r].malformed
  /\ req[r].body.t = "obj"
  /\ HasKey(req[r].body, "videoUrl")
  /\ Get(req[r].body, "videoUrl").t \in {"num", "bool", "arr", "obj"}

\* C21: a request whose videoUrl is present and is no string (a number, a
\* boolean, an array, an object) ends with 400 and the error 'Video URL is
\* required', and the Transcript Provider is never called for it.
C21_StringRequired ==
  \A r \in Reqs :
    NonStringUrl(r) =>
      /\ transcriptCalls[r] = <<>>
      /\ pc[r] = "done" =>
           res[r] = [status |-> 400, body |-> ErrorBody("Video URL is required")]
=============================================================================
